---- MODULE Spec2Model ----
(* The HubSpot calculator relay: deal-scoped JWTs, the calc.config.json     *)
(* cache, the deal gateway and the line-item gateway.  The repository holds *)
(* four revisions of the server:                                            *)
(*   "v3"   src/unnamed/part_000        (config cache, upsert, listing)     *)
(*   "rev1" src/server.js lines 1-191   (repeated verbatim in 193-397)      *)
(*   "rev3" src/server.js lines 398-470 (signature check only)              *)
(* Every handler is one action; the upstream (HubSpot) outcome, the request *)
(* and the wall clock are inputs.                                           *)
EXTENDS Integers, Sequences, FiniteSets, TLC

VARIABLES
  now,        \* wall clock, whole seconds (Math.floor(Date.now() / 1000))
  JWT_SECRET, \* process.env.JWT_SECRET is set
  tokens,     \* every token jwt.sign has returned so far
  file,       \* calc.config.json on disk
  CALC_CFG,   \* the in-memory config of part_000
  loaded,     \* history: what was on disk at the latest loadConfig()
  req,        \* the request handled at this instant ("idle": none)
  res,        \* its response
  calls       \* the upstream calls its handler issued, in order

vars == <<now, JWT_SECRET, tokens, file, CALC_CFG, loaded, req, res, calls>>

---------------------------------------------------------------------------
(* Bounds *)
MaxDeal == 2
MaxTokens == 1
MaxMintTime == 1
MaxSlack == 2
MaxItems == 3
MaxFeatures == 2
MaxPages == 2

(* Program constants *)
ExpiresIn == 300
ClockTolerance == 5
AssociationTypeId == 20

MaxTime == MaxMintTime + ExpiresIn + ClockTolerance + MaxSlack

\* The clock is sampled where a token's life changes: the seconds in which
\* tokens are minted, one second in mid-life, and every second from just before
\* the earliest expiry to past the latest expiry plus tolerance.
Instants ==
  (0..MaxMintTime) \cup {ExpiresIn \div 2} \cup ((ExpiresIn - MaxSlack)..MaxTime)
NextInstant(t) ==
  CHOOSE n \in Instants : n > t /\ \A m \in Instants : m > t => n <= m

---------------------------------------------------------------------------
(* JavaScript values: undefined, strings, and numbers carried by their     *)
(* decimal text.                                                            *)
Undef == [k |-> "undefined", v |-> ""]
Str(s) == [k |-> "string", v |-> s]
Num(s) == [k |-> "number", v |-> s]

String(x) == IF x.k = "undefined" THEN Str("undefined") ELSE Str(x.v)

Truthy(x) ==
  /\ x.k # "undefined"
  /\ x.v # ""
  /\ ~(x.k = "number" /\ x.v = "0")

DealText == <<"1", "2", "3", "4">>
DealNames == {DealText[i] : i \in 1..MaxDeal}
\* req.params.id and req.query.dealId are strings when present
UrlIds == {Str(d) : d \in DealNames}
QueryIds == UrlIds \cup {Undef, Str("")}
\* a JSON body may carry the deal id as a string or as a number
BodyIds == UrlIds \cup {Undef, Num(DealText[1])}

---------------------------------------------------------------------------
(* Tokens *)
NoToken == [kind |-> "undefined", dealId |-> Undef, iat |-> 0, exp |-> 0, key |-> "none"]
Garbage == [kind |-> "garbage", dealId |-> Undef, iat |-> 0, exp |-> 0, key |-> "none"]

\* a signer whose tokens expire a second early
SignExpShort(dealId, time) ==
  [kind |-> "jwt", dealId |-> dealId, iat |-> time, exp |-> time + ExpiresIn - 1,
   key |-> "JWT_SECRET"]

\* jwt.sign(payload, JWT_SECRET, {expiresIn: '5m'}) at clock second `time`
sign(dealId, time) ==
  [kind |-> "jwt", dealId |-> dealId, iat |-> time, exp |-> time + ExpiresIn,
   key |-> "JWT_SECRET"]

\* a well-formed token signed with some other key
Forged(dealId, time) == [sign(dealId, time) EXCEPT !.key = "other"]

\* a verifier that never looks at exp
VerifyNoExpiry(t, secret, tol, time) ==
  IF t.kind = "undefined" THEN "JsonWebTokenError"
  ELSE IF t.kind = "garbage" THEN "JsonWebTokenError"
  ELSE IF ~secret THEN "JsonWebTokenError"
  ELSE IF t.key # "JWT_SECRET" THEN "JsonWebTokenError"
  ELSE "ok"

\* jwt.verify(t, JWT_SECRET, {clockTolerance: tol}) at clock second `time`:
\* "ok" or the name of the error thrown; expired means time >= exp + tol
verify(t, secret, tol, time) ==
  IF t.kind = "undefined" THEN "JsonWebTokenError"
  ELSE IF t.kind = "garbage" THEN "JsonWebTokenError"
  ELSE IF ~secret THEN "JsonWebTokenError"
  ELSE IF t.key # "JWT_SECRET" THEN "JsonWebTokenError"
  ELSE IF time >= t.exp + tol THEN "TokenExpiredError"
  ELSE "ok"

\* the tokens a client can present: none, garbage, a forgery, or a minted one
Presentable == {NoToken, Garbage} \cup {Forged(d, now) : d \in UrlIds} \cup tokens

---------------------------------------------------------------------------
(* calc.config.json and the config cache *)
EmptyCatalog == [standard |-> <<>>, options |-> <<>>]
SomeCatalog == [standard |-> <<"seat">>, options |-> <<"support">>]
DefaultConfig == [features |-> <<>>, lineItems |-> EmptyCatalog]

Feature(p) == [fromDealProperty |-> p]
Features == {Feature(Undef), Feature(Str("amount")), Feature(Str("dealname"))}

RECURSIVE SeqsUpTo(_, _)
SeqsUpTo(S, n) ==
  IF n = 0 THEN {<<>>}
  ELSE LET shorter == SeqsUpTo(S, n - 1)
       IN  shorter \cup {Append(q, x) : q \in {r \in shorter : Len(r) = n - 1}, x \in S}

FeatureLists == SeqsUpTo(Features, MaxFeatures)

\* what readFileSync + JSON.parse can meet on disk
FileOf(kind, isArray, features, truthy, lineItems) ==
  [kind |-> kind, featuresIsArray |-> isArray, features |-> features,
   lineItemsTruthy |-> truthy, lineItems |-> lineItems]
MissingFile == FileOf("missing", FALSE, <<>>, FALSE, EmptyCatalog)
InvalidFile == FileOf("invalid", FALSE, <<>>, FALSE, EmptyCatalog)
NullFile == FileOf("null", FALSE, <<>>, FALSE, EmptyCatalog)
ScalarFile == FileOf("scalar", FALSE, <<>>, FALSE, EmptyCatalog)
ObjectFiles ==
  {FileOf("object", FALSE, <<>>, li, IF li THEN SomeCatalog ELSE EmptyCatalog) :
     li \in BOOLEAN}
  \cup {FileOf("object", TRUE, fs, li, IF li THEN SomeCatalog ELSE EmptyCatalog) :
     fs \in FeatureLists, li \in BOOLEAN}
Files == {MissingFile, InvalidFile, NullFile, ScalarFile} \cup ObjectFiles
BadFiles == {MissingFile, InvalidFile, NullFile, ScalarFile}

\* a loader that keeps the previous config when the load fails
LoadConfigKeepOnFailure(f, old) ==
  IF f.kind \in {"missing", "invalid", "null"} THEN old
  ELSE [features |-> IF f.kind = "object" /\ f.featuresIsArray THEN f.features ELSE <<>>,
        lineItems |-> IF f.kind = "object" /\ f.lineItemsTruthy THEN f.lineItems
                      ELSE EmptyCatalog]

\* the value loadConfig() assigns to CALC_CFG with f on disk (old: the value
\* it replaces, which the code never reads)
loadConfig(f, old) ==
  IF f.kind \in {"missing", "invalid", "null"} THEN DefaultConfig
  ELSE [features |-> IF f.kind = "object" /\ f.featuresIsArray THEN f.features ELSE <<>>,
        lineItems |-> IF f.kind = "object" /\ f.lineItemsTruthy THEN f.lineItems
                      ELSE EmptyCatalog]

\* Array.from(new Set(a)): first occurrences, in order
RECURSIVE Dedup(_)
Dedup(a) ==
  IF a = <<>> THEN <<>>
  ELSE LET front == Dedup(SubSeq(a, 1, Len(a) - 1))
           last == a[Len(a)]
       IN  IF \E i \in 1..Len(front) : front[i] = last THEN front ELSE Append(front, last)

\* a.filter(Boolean) over the mapped fromDealProperty values
RECURSIVE FeatureProps(_)
FeatureProps(fs) ==
  IF fs = <<>> THEN <<>>
  ELSE LET p == fs[1].fromDealProperty
       IN  (IF Truthy(p) THEN <<p.v>> ELSE <<>>) \o FeatureProps(Tail(fs))

baseProps == <<"dealname", "dealstage", "pipeline", "hs_currency">>

configDealProps(cfg) == Dedup(baseProps \o FeatureProps(cfg.features))

\* the property list the earlier revisions of GET /api/deals/:id hard-code
propsRev1 == <<"dealname", "amount", "dealstage", "pipeline", "custom_region",
               "custom_segment", "custom_discount_rate", "custom_user_seats">>
propsRev3 == <<"dealname", "amount", "dealstage", "pipeline", "custom_region",
               "custom_segment", "custom_discount_rate">>

---------------------------------------------------------------------------
(* Upstream (HubSpot) outcomes of one axios call *)
UpOk == [kind |-> "ok", status |-> 200, body |-> "hs_data"]
UpHttp(s, b) == [kind |-> "http", status |-> s, body |-> b]
UpNetwork == [kind |-> "network", status |-> 0, body |-> ""]
UpErrors == {UpHttp(s, "hs_error") : s \in {403, 404}} \cup {UpNetwork}
Outcomes == {UpOk} \cup UpErrors

Call(op, deal, arg) == [op |-> op, deal |-> deal, arg |-> arg]

(* Responses *)
Response(status, type, error, hubspot, data) ==
  [status |-> status, type |-> type, error |-> error, hubspot |-> hubspot, data |-> data]
NoResponse == Response(0, "none", "", "", "")
Json(status, data) == Response(status, "json", "", "", data)
\* an error sent with res.send instead of res.json
JsonErrorAsText(status, error) == Response(status, "text", "", "", error)

\* res.status(status).json({error})
JsonError(status, error) == Response(status, "json", error, "", "")
Text(status, body) == Response(status, "text", "", "", body)

\* res.status(e?.response?.status || 500).json({error, message, hubspot: e?.response?.data})
Catch(error, up) ==
  Response(IF up.kind = "http" /\ up.status # 0 THEN up.status ELSE 500, "json", error,
           IF up.kind = "http" THEN up.body ELSE "", "")

\* a jwt.verify failure reaches the same catch with no e.response
CatchVerify(error) == Catch(error, UpNetwork)

Result(r, c) == [res |-> r, calls |-> c]

\* req.body.items: an array, or anything else (Array.isArray fails)
Items(list) == [isArray |-> TRUE, list |-> list]
NotAnArray == [isArray |-> FALSE, list |-> <<>>]

\* one exchange: the endpoint, the deal id of the URL or body, the token t, the
\* items of the body, and what upstream answers to each call the handler makes
Request(ep, id, t, items, up) == [ep |-> ep, id |-> id, t |-> t, items |-> items, up |-> up]
IdleRequest == Request("idle", Undef, NoToken, NotAnArray, <<>>)

---------------------------------------------------------------------------
(* GET /api/jwt *)
\* part_000 and rev1: 400 without dealId, 500 when jwt.sign throws, else the token
apiJwt(dealId) ==
  IF ~Truthy(dealId) THEN Text(400, "dealId required")
  ELSE IF ~JWT_SECRET THEN Text(500, "Failed to mint JWT")
  ELSE Text(200, "token")

\* rev3: no String(), no try: a throwing jwt.sign ends in the framework's error page
apiJwtRev3(dealId) ==
  IF ~Truthy(dealId) THEN Text(400, "dealId required")
  ELSE IF ~JWT_SECRET THEN Response(500, "html", "", "", "")
  ELSE Text(200, "token")

---------------------------------------------------------------------------
(* Deal gateway *)
\* the deal check ahead of jwt.verify
getDealMismatchFirst(id, t, up) ==
  IF t.kind = "jwt" /\ String(t.dealId) # String(id)
    THEN Result(JsonError(403, "Deal mismatch"), <<>>)
  ELSE IF verify(t, JWT_SECRET, ClockTolerance, now) # "ok"
    THEN Result(CatchVerify("Request failed"), <<>>)
  ELSE IF up.kind = "ok"
    THEN Result(Json(200, up.body), <<Call("GET deal", id, configDealProps(CALC_CFG))>>)
  ELSE Result(Catch("Request failed", up), <<Call("GET deal", id, configDealProps(CALC_CFG))>>)

\* part_000: GET /api/deals/:id?t=
getDeal(id, t, up) ==
  IF verify(t, JWT_SECRET, ClockTolerance, now) # "ok"
    THEN Result(CatchVerify("Request failed"), <<>>)
  ELSE IF String(t.dealId) # String(id)
    THEN Result(JsonError(403, "Deal mismatch"), <<>>)
  ELSE IF up.kind = "ok"
    THEN Result(Json(200, up.body), <<Call("GET deal", id, configDealProps(CALC_CFG))>>)
  ELSE Result(Catch("Request failed", up), <<Call("GET deal", id, configDealProps(CALC_CFG))>>)

\* rev1: the same checks, a hard-coded property list
getDealRev1(id, t, up) ==
  IF verify(t, JWT_SECRET, ClockTolerance, now) # "ok"
    THEN Result(CatchVerify("Request failed"), <<>>)
  ELSE IF String(t.dealId) # String(id)
    THEN Result(JsonError(403, "Deal mismatch"), <<>>)
  ELSE IF up.kind = "ok"
    THEN Result(Json(200, up.body), <<Call("GET deal", id, propsRev1)>>)
  ELSE Result(Catch("Request failed", up), <<Call("GET deal", id, propsRev1)>>)

\* rev3: jwt.verify(t, JWT_SECRET) only; the catch answers 500 whatever failed
getDealRev3(id, t, up) ==
  IF verify(t, JWT_SECRET, 0, now) # "ok"
    THEN Result(JsonError(500, "Failed to fetch deal"), <<>>)
  ELSE IF up.kind = "ok"
    THEN Result(Json(200, up.body), <<Call("GET deal", id, propsRev3)>>)
  ELSE Result(JsonError(500, "Failed to fetch deal"), <<Call("GET deal", id, propsRev3)>>)

\* part_000: PATCH /api/deals/:id, body {t, properties}
patchDeal(id, t, up) ==
  IF verify(t, JWT_SECRET, ClockTolerance, now) # "ok"
    THEN Result(CatchVerify("Deal update failed"), <<>>)
  ELSE IF String(t.dealId) # String(id)
    THEN Result(JsonError(403, "Deal mismatch"), <<>>)
  ELSE IF up.kind = "ok"
    THEN Result(Json(200, up.body), <<Call("PATCH deal", id, <<>>)>>)
  ELSE Result(Catch("Deal update failed", up), <<Call("PATCH deal", id, <<>>)>>)

---------------------------------------------------------------------------
(* Line-item gateway: listing *)
\* one page of GET .../associations/line_items: the to.id of each result
\* (Undef: a result without one) and paging.next.after ("": none)
Page(ids, after) == [kind |-> "ok", status |-> 200, body |-> [ids |-> ids, after |-> after]]

RECURSIVE PageIds(_)
PageIds(rs) ==
  IF rs = <<>> THEN <<>>
  ELSE (IF Truthy(rs[1]) THEN <<String(rs[1]).v>> ELSE <<>>) \o PageIds(Tail(rs))

\* what the loop has when the pages upstream has answered run out while a
\* cursor is still open: request i is on its way and nothing has come back
AwaitingPage(c) == [ids |-> <<>>, calls |-> <<c>>, state |-> "awaiting", error |-> UpOk]

\* only the first page is read
GetIdsFirstPageOnly(dealId, pages, i, after) ==
  LET c == Call("GET associations", dealId, after)
  IN  IF i > Len(pages) THEN AwaitingPage(c)
      ELSE IF pages[i].kind # "ok"
        THEN [ids |-> <<>>, calls |-> <<c>>, state |-> "failed", error |-> pages[i]]
      ELSE [ids |-> PageIds(pages[i].body.ids), calls |-> <<c>>, state |-> "done",
            error |-> UpOk]

\* getAssociatedLineItemIds: do { GET ...?limit=100&after } while (after); the
\* i-th request carries the cursor of page i-1, pages = upstream's answers
RECURSIVE getAssociatedLineItemIds(_, _, _, _)
getAssociatedLineItemIds(dealId, pages, i, after) ==
  LET c == Call("GET associations", dealId, after)
  IN  IF i > Len(pages) THEN AwaitingPage(c)
      ELSE IF pages[i].kind # "ok"
        THEN [ids |-> <<>>, calls |-> <<c>>, state |-> "failed", error |-> pages[i]]
      ELSE IF pages[i].body.after = ""
        THEN [ids |-> PageIds(pages[i].body.ids), calls |-> <<c>>, state |-> "done",
              error |-> UpOk]
      ELSE LET rest == getAssociatedLineItemIds(dealId, pages, i + 1, pages[i].body.after)
           IN  [ids |-> PageIds(pages[i].body.ids) \o rest.ids,
                calls |-> <<c>> \o rest.calls,
                state |-> rest.state, error |-> rest.error]

\* part_000: GET /api/deals/:id/line-items?t= ; up = the pages, then the batch
\* read. No response goes out while the loop awaits a page.
getLineItems(id, t, up) ==
  IF verify(t, JWT_SECRET, ClockTolerance, now) # "ok"
    THEN Result(CatchVerify("Line item read failed"), <<>>)
  ELSE IF String(t.dealId) # String(id)
    THEN Result(JsonError(403, "Deal mismatch"), <<>>)
  ELSE LET a == getAssociatedLineItemIds(id, SubSeq(up, 1, Len(up) - 1), 1, "")
           batch == up[Len(up)]
           read == Call("POST batch/read", id, a.ids)
       IN  IF a.state = "awaiting" THEN Result(NoResponse, a.calls)
           ELSE IF a.state = "failed"
             THEN Result(Catch("Line item read failed", a.error), a.calls)
           ELSE IF Len(a.ids) = 0 THEN Result(Json(200, "results: []"), a.calls)
           ELSE IF batch.kind = "ok"
             THEN Result(Json(200, "results: data.results"), Append(a.calls, read))
           ELSE Result(Catch("Line item read failed", batch), Append(a.calls, read))

---------------------------------------------------------------------------
(* Line-item gateway: create and upsert *)
Item(id, name, unitPrice, price, quantity, qty, currency, discountPercent, term) ==
  [id |-> id, name |-> name, unitPrice |-> unitPrice, price |-> price,
   quantity |-> quantity, qty |-> qty, currency |-> currency,
   discountPercent |-> discountPercent, term |-> term]

\* a ?? b
Nullish(a, b) == IF a.k = "undefined" THEN b ELSE a
\* a || b
Or(a, b) == IF Truthy(a) THEN a ELSE b

\* part_000 toLineItemProperties (discountAmount is handled like discountPercent)
toLineItemProperties(item) ==
  [name |-> item.name,
   price |-> String(Nullish(item.unitPrice, Nullish(item.price, Num("0")))),
   quantity |-> String(Nullish(item.quantity, Nullish(item.qty, Num("1")))),
   hs_line_item_currency_code |-> Or(item.currency, Str("USD")),
   hs_discount_percentage |->
     IF item.discountPercent.k # "undefined" THEN String(item.discountPercent) ELSE Undef,
   recurringbillingfrequency |-> IF Truthy(item.term) THEN String(item.term) ELSE Undef]

\* rev1 buildLineItemInputs' properties (no price/quantity fallbacks, no term)
propertiesRev1(item) ==
  [name |-> item.name,
   price |-> String(Nullish(item.unitPrice, Num("0"))),
   quantity |-> String(Nullish(item.qty, Num("1"))),
   hs_line_item_currency_code |-> Or(item.currency, Str("USD")),
   hs_discount_percentage |->
     IF item.discountPercent.k # "undefined" THEN String(item.discountPercent) ELSE Undef,
   recurringbillingfrequency |-> Undef]

Association(dealId) ==
  [to |-> String(dealId), associationCategory |-> "HUBSPOT_DEFINED",
   associationTypeId |-> AssociationTypeId]

Input(id, properties, associations) ==
  [id |-> id, properties |-> properties, associations |-> associations]

\* rev1 buildLineItemInputs: every item becomes a create input
RECURSIVE buildLineItemInputs(_, _)
buildLineItemInputs(dealId, items) ==
  IF items = <<>> THEN <<>>
  ELSE <<Input(Undef, propertiesRev1(items[1]), <<Association(dealId)>>)>>
       \o buildLineItemInputs(dealId, Tail(items))

\* a loop that creates every item, whether it has an id or not
RECURSIVE CreateInputsAll(_, _)
CreateInputsAll(dealId, items) ==
  IF items = <<>> THEN <<>>
  ELSE <<Input(Undef, toLineItemProperties(items[1]), <<Association(dealId)>>)>>
       \o CreateInputsAll(dealId, Tail(items))

\* the upsert loop's createInputs
RECURSIVE createInputs(_, _)
createInputs(dealId, items) ==
  IF items = <<>> THEN <<>>
  ELSE (IF Truthy(items[1].id) THEN <<>>
        ELSE <<Input(Undef, toLineItemProperties(items[1]), <<Association(dealId)>>)>>)
       \o createInputs(dealId, Tail(items))

\* the upsert loop's updateInputs
RECURSIVE updateInputs(_)
updateInputs(items) ==
  IF items = <<>> THEN <<>>
  ELSE (IF Truthy(items[1].id)
          THEN <<Input(String(items[1].id), toLineItemProperties(items[1]), <<>>)>>
        ELSE <<>>)
       \o updateInputs(Tail(items))

\* the update is sent ahead of the create
UpsertCallsUpdateFirst(dealId, items, up) ==
  LET c == createInputs(dealId, items)
      u == updateInputs(items)
      create == Call("POST batch/create", String(dealId), c)
      update == Call("POST batch/update", String(dealId), u)
  IN  IF Len(u) > 0 /\ up[2].kind # "ok"
        THEN Result(Catch("Upsert failed", up[2]), <<update>>)
      ELSE IF Len(c) > 0 /\ up[1].kind # "ok"
        THEN Result(Catch("Upsert failed", up[1]),
                    (IF Len(u) > 0 THEN <<update>> ELSE <<>>) \o <<create>>)
      ELSE Result(Json(200, "ok"),
                  (IF Len(u) > 0 THEN <<update>> ELSE <<>>)
                  \o (IF Len(c) > 0 THEN <<create>> ELSE <<>>))

\* a handler that sends the update although the create failed
UpsertCallsUpdateAlways(dealId, items, up) ==
  LET c == createInputs(dealId, items)
      u == updateInputs(items)
      create == Call("POST batch/create", String(dealId), c)
      update == Call("POST batch/update", String(dealId), u)
  IN  IF Len(c) > 0 /\ up[1].kind # "ok"
        THEN Result(Catch("Upsert failed", up[1]),
                    <<create>> \o (IF Len(u) > 0 THEN <<update>> ELSE <<>>))
      ELSE IF Len(u) > 0 /\ up[2].kind # "ok"
        THEN Result(Catch("Upsert failed", up[2]),
                    (IF Len(c) > 0 THEN <<create>> ELSE <<>>) \o <<update>>)
      ELSE Result(Json(200, "ok"),
                  (IF Len(c) > 0 THEN <<create>> ELSE <<>>)
                  \o (IF Len(u) > 0 THEN <<update>> ELSE <<>>))

\* the calls after validation and authorization; up = <<create's, update's outcome>>
upsertCalls(dealId, items, up) ==
  LET c == createInputs(dealId, items)
      u == updateInputs(items)
      create == Call("POST batch/create", String(dealId), c)
      update == Call("POST batch/update", String(dealId), u)
  IN  IF Len(c) > 0 /\ up[1].kind # "ok"
        THEN Result(Catch("Upsert failed", up[1]), <<create>>)
      ELSE IF Len(u) > 0 /\ up[2].kind # "ok"
        THEN Result(Catch("Upsert failed", up[2]),
                    (IF Len(c) > 0 THEN <<create>> ELSE <<>>) \o <<update>>)
      ELSE Result(Json(200, "ok"),
                  (IF Len(c) > 0 THEN <<create>> ELSE <<>>)
                  \o (IF Len(u) > 0 THEN <<update>> ELSE <<>>))

\* part_000: POST /api/line-items/upsert, body {dealId, t, items}
upsert(dealId, t, items, up) ==
  IF ~Truthy(dealId) \/ t.kind = "undefined" \/ ~items.isArray
    THEN Result(JsonError(400, "Missing dealId, t, or items[]"), <<>>)
  ELSE IF verify(t, JWT_SECRET, ClockTolerance, now) # "ok"
    THEN Result(CatchVerify("Upsert failed"), <<>>)
  ELSE IF String(t.dealId) # String(dealId)
    THEN Result(JsonError(403, "Deal mismatch"), <<>>)
  ELSE upsertCalls(dealId, items.list, up)

\* rev1: POST /api/line-items, body {dealId, t, items}
postLineItems(dealId, t, items, up) ==
  IF ~Truthy(dealId) \/ t.kind = "undefined" \/ ~items.isArray \/ Len(items.list) = 0
    THEN Result(JsonError(400, "Missing dealId, t, or items[]"), <<>>)
  ELSE IF verify(t, JWT_SECRET, ClockTolerance, now) # "ok"
    THEN Result(CatchVerify("Failed to create line items"), <<>>)
  ELSE IF String(t.dealId) # String(dealId)
    THEN Result(JsonError(403, "Deal mismatch for token"), <<>>)
  ELSE LET create == Call("POST batch/create", String(dealId),
                          buildLineItemInputs(dealId, items.list))
       IN  IF up[1].kind = "ok" THEN Result(Json(200, "ok"), <<create>>)
           ELSE Result(Catch("Failed to create line items", up[1]), <<create>>)

---------------------------------------------------------------------------
(* Config endpoints *)
\* part_000: GET /api/calc-config sends the cache
getCalcConfig == Result(Json(200, CALC_CFG), <<>>)

\* rev1: GET /api/calc-config reads the file on every request and sends it raw
getCalcConfigRev1 ==
  IF file.kind = "missing"
    THEN Result(JsonError(500, "Missing or unreadable calc.config.json"), <<>>)
  ELSE Result(Json(200, file), <<>>)

---------------------------------------------------------------------------
(* Request inputs *)
ItemNone == Item(Undef, Str("A"), Undef, Undef, Undef, Undef, Undef, Undef, Undef)
ItemKinds ==
  { [ItemNone EXCEPT !.qty = Num("2")],
    [ItemNone EXCEPT !.id = Str("123")],
    [ItemNone EXCEPT !.id = Num("456"), !.name = Str("B"), !.unitPrice = Num("9"),
                     !.term = Str("monthly")],
    [ItemNone EXCEPT !.name = Str("C"), !.price = Num("5"), !.quantity = Num("3"),
                     !.currency = Str("CAD"), !.discountPercent = Num("0")] }
ItemLists == SeqsUpTo(ItemKinds, MaxItems)
Bodies == {Items(l) : l \in ItemLists} \cup {NotAnArray}
\* for the runs that are not about batches: no array, none or one item without id
FewBodies ==
  {Items(l) : l \in {q \in SeqsUpTo(ItemKinds, 1) : q = <<>> \/ ~Truthy(q[1].id)}}
  \cup {NotAnArray}

\* association pages as upstream answers them: with a cursor to the next page
\* (MidPages), without one, or a failure (LastPages); upstream answers up to
\* MaxPages requests of one listing, whatever the handler does with them
LineItemIds == {Str("123"), Num("456"), Undef}
MidPages ==
  { Page(<<Str("123")>>, "c1"), Page(<<Num("456")>>, "c2"),
    Page(<<Undef>>, "c1"), Page(<<>>, "c2") }
LastPages == {Page(ids, "") : ids \in SeqsUpTo(LineItemIds, 1)} \cup UpErrors
PageSeqs == SeqsUpTo(MidPages \cup LastPages, MaxPages) \ {<<>>}
ListInputs == {Append(ps, batch) : ps \in PageSeqs, batch \in Outcomes}
\* for the runs that are not about paging: one page, the last
FewListInputs == {<<p, batch>> : p \in LastPages, batch \in Outcomes}

---------------------------------------------------------------------------
(* State machine *)
\* the process after start-up (loadConfig() has run) with f on disk
Boot(f) ==
  /\ now = 0
  /\ JWT_SECRET \in BOOLEAN
  /\ tokens = {}
  /\ file = f
  /\ CALC_CFG = loadConfig(f, DefaultConfig)
  /\ loaded = f
  /\ req = IdleRequest
  /\ res = NoResponse
  /\ calls = <<>>

\* Node runs one handler at a time: a request is taken up when the previous
\* response has been sent
Exchange(r, result) ==
  /\ req = IdleRequest
  /\ req' = r
  /\ res' = result.res
  /\ calls' = result.calls

\* the response is sent
Deliver ==
  /\ req # IdleRequest
  /\ req' = IdleRequest
  /\ res' = NoResponse
  /\ calls' = <<>>
  /\ UNCHANGED <<now, JWT_SECRET, tokens, file, CALC_CFG, loaded>>

\* the clock moves on to the next sampled second
Tick ==
  /\ req = IdleRequest
  /\ \E n \in Instants : n > now
  /\ now' = NextInstant(now)
  /\ UNCHANGED <<JWT_SECRET, tokens, file, CALC_CFG, loaded, req, res, calls>>

\* someone edits calc.config.json
WriteFile(f) ==
  /\ req = IdleRequest
  /\ f # file
  /\ file' = f
  /\ UNCHANGED <<now, JWT_SECRET, tokens, CALC_CFG, loaded, req, res, calls>>

\* POST /api/reload-config
ReloadConfig ==
  /\ CALC_CFG' = loadConfig(file, CALC_CFG)
  /\ loaded' = file
  /\ Exchange(Request("POST /api/reload-config", Undef, NoToken, NotAnArray, <<>>),
              Result(Json(200, Len(loadConfig(file, CALC_CFG).features)), <<>>))
  /\ UNCHANGED <<now, JWT_SECRET, tokens, file>>

Minted(r, tok) ==
  IF r.status = 200
    THEN /\ tok \in tokens \/ (Cardinality(tokens) < MaxTokens /\ now <= MaxMintTime)
         /\ tokens' = tokens \cup {tok}
  ELSE tokens' = tokens

\* GET /api/jwt?dealId= (part_000, rev1)
ApiJwt(dealId) ==
  /\ Minted(apiJwt(dealId), sign(String(dealId), now))
  /\ Exchange(Request("GET /api/jwt", dealId, NoToken, NotAnArray, <<>>),
              Result(apiJwt(dealId), <<>>))
  /\ UNCHANGED <<now, JWT_SECRET, file, CALC_CFG, loaded>>

\* GET /api/jwt?dealId= (rev3)
ApiJwtRev3(dealId) ==
  /\ Minted(apiJwtRev3(dealId), sign(dealId, now))
  /\ Exchange(Request("GET /api/jwt rev3", dealId, NoToken, NotAnArray, <<>>),
              Result(apiJwtRev3(dealId), <<>>))
  /\ UNCHANGED <<now, JWT_SECRET, file, CALC_CFG, loaded>>

Handled(ep, id, t, items, up, result) ==
  /\ Exchange(Request(ep, id, t, items, up), result)
  /\ UNCHANGED <<now, JWT_SECRET, tokens, file, CALC_CFG, loaded>>

GetCalcConfig ==
  Handled("GET /api/calc-config", Undef, NoToken, NotAnArray, <<>>, getCalcConfig)

GetCalcConfigRev1 ==
  Handled("GET /api/calc-config rev1", Undef, NoToken, NotAnArray, <<>>, getCalcConfigRev1)

GetDeal(id, t, up) ==
  Handled("GET /api/deals/:id", id, t, NotAnArray, <<up>>, getDeal(id, t, up))

GetDealRev1(id, t, up) ==
  Handled("GET /api/deals/:id rev1", id, t, NotAnArray, <<up>>, getDealRev1(id, t, up))

GetDealRev3(id, t, up) ==
  Handled("GET /api/deals/:id rev3", id, t, NotAnArray, <<up>>, getDealRev3(id, t, up))

PatchDeal(id, t, up) ==
  Handled("PATCH /api/deals/:id", id, t, NotAnArray, <<up>>, patchDeal(id, t, up))

GetLineItems(id, t, up) ==
  Handled("GET /api/deals/:id/line-items", id, t, NotAnArray, up, getLineItems(id, t, up))

Upsert(dealId, t, items, up) ==
  Handled("POST /api/line-items/upsert", dealId, t, items, up, upsert(dealId, t, items, up))

PostLineItems(dealId, t, items, up) ==
  Handled("POST /api/line-items rev1", dealId, t, items, <<up>>,
          postLineItems(dealId, t, items, <<up>>))

---------------------------------------------------------------------------
(* The relay: every handler, the clock, and one of two files on disk *)
Idle == req = IdleRequest

GoodFile == FileOf("object", TRUE, <<Feature(Str("amount"))>>, TRUE, SomeCatalog)

Init == \E f \in {MissingFile, GoodFile} : Boot(f)

Next ==
  \/ Tick
  \/ Deliver
  \/ Idle /\ ReloadConfig
  \/ Idle /\ GetCalcConfig
  \/ Idle /\ GetCalcConfigRev1
  \/ Idle /\ \E d \in QueryIds : ApiJwt(d)
  \/ Idle /\ \E d \in QueryIds : ApiJwtRev3(d)
  \/ Idle /\ \E id \in UrlIds, t \in Presentable, up \in Outcomes : GetDeal(id, t, up)
  \/ Idle /\ \E id \in UrlIds, t \in Presentable, up \in Outcomes : GetDealRev1(id, t, up)
  \/ Idle /\ \E id \in UrlIds, t \in Presentable, up \in Outcomes : GetDealRev3(id, t, up)
  \/ Idle /\ \E id \in UrlIds, t \in Presentable, up \in Outcomes : PatchDeal(id, t, up)
  \/ Idle /\ \E id \in UrlIds, t \in Presentable, up \in FewListInputs :
       GetLineItems(id, t, up)
  \/ Idle /\ \E d \in BodyIds, t \in Presentable, b \in FewBodies, u1 \in Outcomes :
       Upsert(d, t, b, <<u1, UpOk>>)
  \/ Idle /\ \E d \in BodyIds, t \in Presentable, b \in FewBodies, up \in Outcomes :
       PostLineItems(d, t, b, up)

Spec == Init /\ [][Next]_vars

(* The config on disk against the cache: edits, reloads, and the endpoints *)
(* that read the config; the clock stands still                            *)
InitConfig == \E f \in Files : Boot(f)

NextConfig ==
  \/ Deliver
  \/ \E f \in Files : WriteFile(f)
  \/ Idle /\ ReloadConfig
  \/ Idle /\ GetCalcConfig
  \/ Idle /\ GetCalcConfigRev1
  \/ Idle /\ \E d \in UrlIds : ApiJwt(d)
  \/ Idle /\ \E id \in UrlIds, t \in tokens, up \in Outcomes : GetDeal(id, t, up)
  \/ Idle /\ \E id \in UrlIds, t \in tokens, up \in Outcomes : GetDealRev1(id, t, up)
  \/ Idle /\ \E id \in UrlIds, t \in tokens, up \in Outcomes : GetDealRev3(id, t, up)

SpecConfig == InitConfig /\ [][NextConfig]_vars

(* The line-item gateway: every batch and every page sequence within the   *)
(* bounds; the clock stands still                                          *)
InitLineItems == Boot(GoodFile)

NextLineItems ==
  \/ Deliver
  \/ Idle /\ \E d \in UrlIds : ApiJwt(d)
  \/ Idle /\ \E id \in UrlIds, t \in Presentable, up \in ListInputs :
       GetLineItems(id, t, up)
  \/ Idle /\ \E d \in BodyIds, t \in Presentable, b \in Bodies,
                 u1 \in Outcomes, u2 \in Outcomes : Upsert(d, t, b, <<u1, u2>>)
  \/ Idle /\ \E d \in BodyIds, t \in Presentable, b \in Bodies, up \in Outcomes :
       PostLineItems(d, t, b, up)

SpecLineItems == InitLineItems /\ [][NextLineItems]_vars

---------------------------------------------------------------------------
(* Vocabulary of the properties *)
JwtEps == {"GET /api/jwt", "GET /api/jwt rev3"}
BodyEps == {"POST /api/line-items/upsert", "POST /api/line-items rev1"}
ProtectedEps ==
  {"GET /api/deals/:id", "GET /api/deals/:id rev1", "GET /api/deals/:id rev3",
   "PATCH /api/deals/:id", "GET /api/deals/:id/line-items"} \cup BodyEps
Protected == req.ep \in ProtectedEps

\* the clock tolerance the endpoint verifies with
ToleranceOf(ep) == IF ep = "GET /api/deals/:id rev3" THEN 0 ELSE ClockTolerance

\* the body names a deal and carries items[] (non-empty for POST /api/line-items)
BodyValid ==
  req.ep \in BodyEps =>
    /\ Truthy(req.id)
    /\ req.items.isArray
    /\ req.ep = "POST /api/line-items rev1" => Len(req.items.list) > 0

ValidlySigned(t) == JWT_SECRET /\ t.kind = "jwt" /\ t.key = "JWT_SECRET"
ForDeal(t, id) == String(t.dealId) = String(id)

\* the handler went past verification and the deal check
Verified == calls # <<>> \/ res.status = 200
\* the handler answered an error without calling upstream
Rejected == res.status >= 400 /\ calls = <<>>

\* what upstream answered to the last call the handler issued
LastOutcome ==
  IF req.ep = "POST /api/line-items/upsert"
    THEN IF calls[Len(calls)].op = "POST batch/create" THEN req.up[1] ELSE req.up[2]
  ELSE IF req.ep = "GET /api/deals/:id/line-items"
    THEN IF calls[Len(calls)].op = "POST batch/read" THEN req.up[Len(req.up)]
         ELSE req.up[Len(calls)]
  ELSE req.up[1]

---------------------------------------------------------------------------
(* C1: on every protected endpoint, a request for deal Y with a validly     *)
(* signed, unexpired token minted for deal X # Y is answered 403 and no     *)
(* upstream call is issued.                                                 *)
C1_CrossDealRejected ==
  (/\ Protected
   /\ BodyValid
   /\ ValidlySigned(req.t)
   /\ now < req.t.exp
   /\ ~ForDeal(req.t, req.id))
  => (res.status = 403 /\ calls = <<>>)

\* the same, of every protected endpoint but rev3's GET /api/deals/:id
DealBindingExceptRev3 ==
  req.ep # "GET /api/deals/:id rev3" => C1_CrossDealRejected

(* C2, as stated: a token is rejected at any time strictly after its expiry *)
(* E, the seconds (E, E + 5] included, on every protected endpoint.         *)
C2_ExpiredRejected ==
  (Protected /\ req.t.kind = "jwt" /\ now > req.t.exp) => Rejected

(* C2, amended: an endpoint rejects a token from its expiry plus the clock  *)
(* tolerance it verifies with (5 s; none in rev3) on, and until then still  *)
(* accepts a validly signed token presented for its own deal.               *)
C2_ExpiryWithTolerance ==
  /\ (Protected /\ req.t.kind = "jwt" /\ now >= req.t.exp + ToleranceOf(req.ep))
       => Rejected /\ res.status # 403
  /\ (/\ Protected
      /\ BodyValid
      /\ ValidlySigned(req.t)
      /\ ForDeal(req.t, req.id)
      /\ now < req.t.exp + ToleranceOf(req.ep))
       => Verified

\* a minted token, past its expiry and inside the tolerance, is accepted
C2_Witness ==
  /\ req.ep = "GET /api/deals/:id"
  /\ req.t \in tokens
  /\ now > req.t.exp
  /\ now < req.t.exp + ClockTolerance
  /\ res.status = 200
  /\ Len(calls) = 1

(* C3, as stated: a token minted at T for X embeds String(X) and the expiry *)
(* T + 300; presented for X at any time up to T + 300 it passes             *)
(* verification on every protected endpoint.                                *)
C3_Minted ==
  /\ \A t \in tokens :
       t.kind = "jwt" /\ t.dealId.k = "string" /\ t.exp = t.iat + ExpiresIn /\ t.iat <= now
  /\ (req.ep \in JwtEps /\ res.status = 200) =>
       \E t \in tokens : t.dealId = String(req.id) /\ t.iat = now /\ t.exp = now + ExpiresIn

C3_ValidUntilExpiry ==
  /\ C3_Minted
  /\ (/\ Protected
      /\ BodyValid
      /\ req.t \in tokens
      /\ ForDeal(req.t, req.id)
      /\ now < req.t.iat + ExpiresIn + ToleranceOf(req.ep))
       => Verified

C3_NoRefresh ==
  /\ \A t \in tokens : t \in tokens'
  /\ \A t \in tokens' :
       t \in tokens \/ (req'.ep \in JwtEps /\ t.iat = now /\ t.exp = now + ExpiresIn)

AuthError ==
  /\ Rejected
  /\ res.status # 403
  /\ res.type = "json"
  /\ res.error \notin {"", "Deal mismatch", "Deal mismatch for token"}

C4_BadTokenAuthError ==
  (Protected /\ (~ValidlySigned(req.t) \/ now >= req.t.exp)) => AuthError

(* C4, amended: the same, a token counting as expired from its expiry plus  *)
(* the endpoint's clock tolerance (5 s; none in rev3) on.                   *)
C4_AuthErrorBeforeDealCheck ==
  (Protected /\ (~ValidlySigned(req.t) \/ now >= req.t.exp + ToleranceOf(req.ep)))
    => AuthError

\* a forged token naming another deal: the authentication error, not the 403
C4_Witness ==
  /\ req.ep = "GET /api/deals/:id"
  /\ req.t.kind = "jwt"
  /\ req.t.key # "JWT_SECRET"
  /\ ~ForDeal(req.t, req.id)
  /\ res.status = 500
  /\ calls = <<>>

(* C9: when an upstream call of a gateway endpoint fails with status S and  *)
(* body B the response has status S and carries B; a failure without an     *)
(* upstream response (network error, token verification) is answered 500.   *)
C9_UpstreamErrorRelayed ==
  Protected =>
    /\ (calls # <<>> /\ LastOutcome.kind = "http") =>
         (res.status = LastOutcome.status /\ res.hubspot = LastOutcome.body)
    /\ (calls # <<>> /\ LastOutcome.kind = "network") => res.status = 500
    /\ (BodyValid /\ req.t.kind # "undefined" /\ ~ValidlySigned(req.t)) => res.status = 500

\* the same, of every gateway endpoint but rev3's GET /api/deals/:id
RelayExceptRev3 ==
  req.ep # "GET /api/deals/:id rev3" => C9_UpstreamErrorRelayed

(* C10, as stated: every error response of every endpoint, GET /api/jwt's   *)
(* included, is JSON with an error field.                                   *)
C10_ErrorsAreJson ==
  res.status >= 400 => (res.type = "json" /\ res.error # "")

(* C10, amended: every error response of every endpoint other than          *)
(* GET /api/jwt is JSON with an error field; GET /api/jwt answers plain     *)
(* text (400 "dealId required", 500 "Failed to mint JWT"), and rev3's, whose *)
(* jwt.sign is not in a try, the framework's 500 page; no error stops the   *)
(* server: the response is sent and the next request is taken up.           *)
C10_ErrorShapes ==
  res.status >= 400 =>
    /\ req.ep \notin JwtEps => (res.type = "json" /\ res.error # "")
    /\ req.ep \in JwtEps =>
         \/ res.type = "text" /\ res.status = 400 /\ res.data = "dealId required"
         \/ res.type = "text" /\ res.status = 500 /\ res.data = "Failed to mint JWT"
              /\ req.ep = "GET /api/jwt"
         \/ res.type = "html" /\ res.status = 500 /\ req.ep = "GET /api/jwt rev3"
    /\ ENABLED Deliver

\* a validation error of the upsert: JSON with an error field
C10_Witness ==
  /\ req.ep = "POST /api/line-items/upsert"
  /\ res.status = 400
  /\ res.type = "json"
  /\ res.error = "Missing dealId, t, or items[]"

---------------------------------------------------------------------------
(* C5: when reading or parsing calc.config.json fails (missing, invalid, or *)
(* not an object) the config is the default empty structure, and            *)
(* GET /api/calc-config answers with it, never with an error.               *)
CalcConfigEps == {"GET /api/calc-config", "GET /api/calc-config rev1"}

C5_DefaultOnFailure ==
  /\ loaded \in BadFiles => CALC_CFG = DefaultConfig
  /\ req.ep = "GET /api/calc-config" => (res.status = 200 /\ res.data = CALC_CFG)
  /\ req.ep = "GET /api/calc-config rev1" =>
       /\ res.status = 200
       /\ file \in BadFiles => res.data = DefaultConfig

\* the same, of part_000 alone
DefaultOnFailureCached ==
  /\ loaded \in BadFiles => CALC_CFG = DefaultConfig
  /\ req.ep = "GET /api/calc-config" => (res.status = 200 /\ res.data = CALC_CFG)

(* C8: the property list GET /api/deals/:id requests holds every base       *)
(* property and every fromDealProperty of a configured feature, nothing     *)
(* else, and nothing twice.                                                 *)
GetDealEps == {"GET /api/deals/:id", "GET /api/deals/:id rev1", "GET /api/deals/:id rev3"}
Elems(q) == {q[i] : i \in 1..Len(q)}
Declared(cfg) ==
  {cfg.features[i].fromDealProperty.v :
     i \in {j \in 1..Len(cfg.features) : Truthy(cfg.features[j].fromDealProperty)}}

C8_DealProps ==
  (req.ep \in GetDealEps /\ calls # <<>>) =>
    LET props == calls[1].arg
    IN  /\ Elems(props) =
             {"dealname", "dealstage", "pipeline", "hs_currency"} \cup Declared(CALC_CFG)
        /\ Cardinality(Elems(props)) = Len(props)

\* the same, of part_000 alone
DealPropsFromConfig == req.ep = "GET /api/deals/:id" => C8_DealProps

---------------------------------------------------------------------------
(* C6, as stated: an authorized upsert issues exactly one batch-create iff  *)
(* an item has no id, exactly one batch-update iff an item has an id, and   *)
(* nothing for an empty items array.                                        *)
Authorized ==
  /\ req.ep = "POST /api/line-items/upsert"
  /\ BodyValid
  /\ ValidlySigned(req.t)
  /\ now < req.t.exp
  /\ ForDeal(req.t, req.id)

Count(op) == Cardinality({i \in 1..Len(calls) : calls[i].op = op})
NoId == {i \in 1..Len(req.items.list) : ~Truthy(req.items.list[i].id)}
WithId == {i \in 1..Len(req.items.list) : Truthy(req.items.list[i].id)}

C6_OneCallEach ==
  Authorized =>
    /\ Count("POST batch/create") = (IF NoId # {} THEN 1 ELSE 0)
    /\ Count("POST batch/update") = (IF WithId # {} THEN 1 ELSE 0)
    /\ Len(calls) <= 2
    /\ req.items.list = <<>> => calls = <<>>

(* C6, amended: an authorized upsert issues exactly one batch-create iff an *)
(* item has no id, and exactly one batch-update iff an item has an id and   *)
(* the batch-create, when there was one, succeeded; never more than one of  *)
(* each, and nothing for an empty items array.                              *)
C6_OneCallEachUnlessCreateFails ==
  Authorized =>
    /\ Count("POST batch/create") = (IF NoId # {} THEN 1 ELSE 0)
    /\ Count("POST batch/update") =
         (IF WithId # {} /\ (NoId = {} \/ req.up[1].kind = "ok") THEN 1 ELSE 0)
    /\ Len(calls) <= 2
    /\ req.items.list = <<>> => calls = <<>>

\* a full batch of both kinds: one create, one update
C6_Witness ==
  /\ Authorized
  /\ Len(req.items.list) = MaxItems
  /\ NoId # {}
  /\ Cardinality(WithId) >= 2
  /\ Count("POST batch/create") = 1
  /\ Count("POST batch/update") = 1

(* C7: the upsert puts every item without an id exactly once into the       *)
(* batch-create inputs, with exactly one association to the request's deal  *)
(* (the deal the token was verified against) of type 20, and every item     *)
(* with an id exactly once into the batch-update inputs, with that id and   *)
(* no association; order within each part is kept.                          *)
ArgOf(op) ==
  IF Count(op) = 0 THEN <<>> ELSE calls[CHOOSE i \in 1..Len(calls) : calls[i].op = op].arg

\* the inputs q are the items at the positions P, in order
InOrder(q, P) ==
  /\ Len(q) = Cardinality(P)
  /\ \E f \in [1..Len(q) -> P] :
       /\ \A i, j \in 1..Len(q) : i < j => f[i] < f[j]
       /\ \A j \in 1..Len(q) :
            /\ q[j].properties = toLineItemProperties(req.items.list[f[j]])
            /\ IF Truthy(req.items.list[f[j]].id)
                 THEN /\ q[j].id = String(req.items.list[f[j]].id)
                      /\ q[j].associations = <<>>
                 ELSE /\ q[j].id = Undef
                      /\ q[j].associations =
                           <<[to |-> String(req.id),
                              associationCategory |-> "HUBSPOT_DEFINED",
                              associationTypeId |-> 20]>>

C7_UpsertPartition ==
  Authorized =>
    /\ InOrder(ArgOf("POST batch/create"), NoId)
    /\ Count("POST batch/update") = 1 => InOrder(ArgOf("POST batch/update"), WithId)
    /\ \A i \in 1..Len(calls) : calls[i].deal = String(req.t.dealId)

\* a full mixed batch, both calls issued
C7_Witness ==
  /\ Authorized
  /\ Len(req.items.list) = MaxItems
  /\ Cardinality(NoId) >= 2
  /\ WithId # {}
  /\ res.status = 200
  /\ Len(calls) = 2

---------------------------------------------------------------------------
(* C11: listing the line items of a deal with a valid token for it: as long *)
(* as upstream answers association pages, the handler issues exactly one    *)
(* association request per page, the first without a cursor and each later  *)
(* one with the cursor of the page before; it stops at the first page       *)
(* without a cursor, so it answers iff upstream returns such a page and     *)
(* otherwise still awaits the next page; it then issues exactly one         *)
(* batch-read for the ids of all pages read, in order, or answers an empty  *)
(* result without a batch-read when no id was found.  (A page request that  *)
(* fails ends the loop as well: no batch-read, the error is answered.)      *)
ListAuthorized ==
  /\ req.ep = "GET /api/deals/:id/line-items"
  /\ ValidlySigned(req.t)
  /\ now < req.t.exp
  /\ ForDeal(req.t, req.id)

\* what upstream answers to the 1st, 2nd, ... association request
Answers == SubSeq(req.up, 1, Len(req.up) - 1)
HasCursor(p) == p.kind = "ok" /\ p.body.after # ""
\* the first answer without a cursor (a last page or a failure); 0: none
Closing ==
  IF \A i \in 1..Len(Answers) : HasCursor(Answers[i]) THEN 0
  ELSE CHOOSE i \in 1..Len(Answers) :
         ~HasCursor(Answers[i]) /\ \A j \in 1..(i - 1) : HasCursor(Answers[j])
Requested == IF Closing = 0 THEN Len(Answers) + 1 ELSE Closing

IdsOf(p) ==
  LET found == SelectSeq(p.body.ids, Truthy)
  IN  [j \in 1..Len(found) |-> String(found[j]).v]
RECURSIVE IdsThrough(_)
IdsThrough(k) == IF k = 0 THEN <<>> ELSE IdsThrough(k - 1) \o IdsOf(Answers[k])

C11_ListingPaged ==
  ListAuthorized =>
    /\ Count("GET associations") = Requested
    /\ Len(calls) >= Requested
    /\ \A i \in 1..Requested :
         /\ calls[i].op = "GET associations"
         /\ calls[i].arg = (IF i = 1 THEN "" ELSE Answers[i - 1].body.after)
    /\ res # NoResponse <=> Closing # 0
    /\ Closing = 0 => Len(calls) = Requested
    /\ Closing # 0 =>
         IF Answers[Closing].kind # "ok"
           THEN /\ Len(calls) = Requested
                /\ res.status >= 400
         ELSE IF IdsThrough(Closing) = <<>>
           THEN /\ Len(calls) = Requested
                /\ res = Json(200, "results: []")
         ELSE /\ Len(calls) = Requested + 1
              /\ calls[Len(calls)].op = "POST batch/read"
              /\ calls[Len(calls)].arg = IdsThrough(Closing)
              /\ res.status = 200 <=> req.up[Len(req.up)].kind = "ok"

\* two pages, an id on each, and the batch read for both
C11_Witness ==
  /\ ListAuthorized
  /\ Len(Answers) = MaxPages
  /\ Closing = MaxPages
  /\ Answers[Closing].kind = "ok"
  /\ Len(IdsThrough(Closing)) = MaxPages
  /\ Len(calls) = MaxPages + 1
  /\ calls[1].arg # calls[2].arg
  /\ res.status = 200
---------------------------------------------------------------------------
(* C12: whatever the order of the start-up load, reloads, edits of the file *)
(* and other requests, CALC_CFG is the normalized content the file had at   *)
(* the most recent load attempt (features [] when not an array, lineItems   *)
(* the empty catalog when absent, the empty default when the attempt        *)
(* failed, whatever was there before); GET /api/calc-config and the         *)
(* property list of GET /api/deals/:id show that one config as a whole; an  *)
(* edit of the file changes nothing until POST /api/reload-config, the only *)
(* step that changes CALC_CFG.                                              *)
Normalized(f) ==
  IF f.kind \in {"missing", "invalid", "null"} THEN DefaultConfig
  ELSE [features |-> IF f.kind = "object" /\ f.featuresIsArray THEN f.features ELSE <<>>,
        lineItems |-> IF f.kind = "object" /\ f.lineItemsTruthy THEN f.lineItems
                      ELSE EmptyCatalog]

C12_CacheIsLastLoad ==
  /\ CALC_CFG = Normalized(loaded)
  /\ req.ep = "GET /api/calc-config" => res = Json(200, Normalized(loaded))
  /\ req.ep = "POST /api/reload-config" => res = Json(200, Len(Normalized(loaded).features))
  /\ (req.ep = "GET /api/deals/:id" /\ calls # <<>>) =>
       Elems(calls[1].arg) = Elems(baseProps) \cup Declared(Normalized(loaded))

C12_ChangesOnlyOnReload ==
  /\ file' # file => (CALC_CFG' = CALC_CFG /\ loaded' = loaded)
  /\ req'.ep # "POST /api/reload-config" => (CALC_CFG' = CALC_CFG /\ loaded' = loaded)
  /\ (req = IdleRequest /\ req'.ep = "POST /api/reload-config") =>
       (loaded' = file /\ CALC_CFG' = Normalized(file))

C12_ConfigIsLastLoad == [](C12_CacheIsLastLoad) /\ [][C12_ChangesOnlyOnReload]_vars

\* the file was edited after the load: the request is answered the config
\* of the load, which is not the one on disk
C12_Witness ==
  /\ req.ep = "GET /api/calc-config"
  /\ file # loaded
  /\ loaded.kind = "object"
  /\ res.data = Normalized(loaded)
  /\ res.data # Normalized(file)
  /\ file.kind = "object"
  /\ Len(res.data.features) = MaxFeatures
---------------------------------------------------------------------------
(* C13: an authorized upsert with items of both kinds issues the            *)
(* batch-create first and the batch-update only once the create has         *)
(* succeeded; a failed create is answered an error with no update issued; a *)
(* failed update after a successful create is answered an error (not        *)
(* ok:true) with the create already sent; no call is repeated and nothing   *)
(* but the one create and the one update goes upstream.                     *)
BothKinds == Authorized /\ NoId # {} /\ WithId # {}

C13_CreateThenUpdate ==
  BothKinds =>
    /\ calls # <<>>
    /\ calls[1].op = "POST batch/create"
    /\ \A i \in 1..Len(calls) : calls[i].op \in {"POST batch/create", "POST batch/update"}
    /\ Count("POST batch/create") = 1
    /\ Count("POST batch/update") <= 1
    /\ \A i \in 1..Len(calls) :
         calls[i].op = "POST batch/update" => (i = 2 /\ req.up[1].kind = "ok")
    /\ req.up[1].kind # "ok" =>
         /\ Len(calls) = 1
         /\ res.status >= 400
         /\ res.error = "Upsert failed"
    /\ req.up[1].kind = "ok" =>
         /\ Len(calls) = 2
         /\ calls[2].op = "POST batch/update"
         /\ req.up[2].kind # "ok" =>
              /\ res.status >= 400
              /\ res.error = "Upsert failed"
              /\ res.data # "ok"
    /\ res = Json(200, "ok") <=> (req.up[1].kind = "ok" /\ req.up[2].kind = "ok")

\* the create went through, the update failed: an error is answered
C13_Witness ==
  /\ BothKinds
  /\ req.up[1].kind = "ok"
  /\ req.up[2].kind = "http"
  /\ calls[1].op = "POST batch/create"
  /\ Len(calls) = 2
  /\ res.status = req.up[2].status
  /\ res.error = "Upsert failed"
====
